---- MODULE Spec2Model ----
(***************************************************************************)
(* A model of sharepoint-manager: the functional layer                     *)
(* (sharepoint_functions.py) and the SharepointManagement facade           *)
(* (sharepoint_management.py) over a remote SharePoint site.               *)
(*                                                                         *)
(* The remote site is the environment: lists of items, site users and a    *)
(* tree of folders and files.  The client context keeps a queue of staged  *)
(* queries (ctx.load, delete_object, update, add ...) which one            *)
(* ctx.execute_query() round trip flushes to the site.  Every function of  *)
(* the functional layer is an operator that threads a "world" record       *)
(* (remote site, staged queries, materialised objects, round-trip log,     *)
(* raised exception) through its statements in source order.               *)
(***************************************************************************)
EXTENDS Integers, Sequences, FiniteSets, TLC

VARIABLES
    lists,           \* remote: list title -> [items, nextId]
    users,           \* remote: sequence of site users, in retrieval order
    folders,         \* remote: set of folder paths (sequences of names)
    files,           \* remote: set of [dir, name] files
    ctx,             \* SharepointManagement.ctx: "ok" or "unset"
    list_conexion,   \* SharepointManagement.list_conexion: title -> handle
    folder_conexion, \* SharepointManagement.folder_conexion: path -> handle
    last,            \* the last call: operation, arguments, outcome, log
    calls,           \* the number of calls made on the manager so far
    platform,        \* the os.path of the process: "posix" (posixpath) or "nt" (ntpath)
    queues           \* the unsent queries of every ClientContext: context -> queue

vars == <<lists, users, folders, files, ctx, list_conexion, folder_conexion, last, calls,
          platform, queues>>

-----------------------------------------------------------------------------
(* Bounds of the model.                                                    *)

MaxItems == 2     \* items ever added to one list
MaxUsers == 3     \* site users
MaxPathLen == 3   \* characters of a local path
MaxDepth == 3     \* depth of the folder tree below the site root
MaxFiles == 2     \* files directly in one folder
MaxCalls == 2     \* calls of a session in which every method may be called
TripsPerFolder == 5   \* execute_query calls of one delete_folder_with_contents level
MaxSteps == 6     \* calls of a session of the "Requests" scenario

-----------------------------------------------------------------------------
(* Python values held by item and user properties.                         *)

IntV(n) == [t |-> "int", n |-> n, s |-> ""]
StrV(s) == [t |-> "str", n |-> 0, s |-> s]
NoneV == [t |-> "none", n |-> 0, s |-> ""]

\* str(value): the conversion of line 226.
str(v) ==
    CASE v.t = "int" -> ToString(v.n)
      [] v.t = "none" -> "None"
      [] OTHER -> v.s

\* An exception: its type and the pieces of its message.
Err(type, msg) == [type |-> type, msg |-> msg]
NoErr == Err("none", <<>>)
NoRet == [kind |-> "none"]

\* A mapping with no entry.
EmptyMap == [x \in {} |-> x]

\* Sequence helpers.
RECURSIVE SeqFilterIdx(_, _, _)
SeqFilterIdx(s, keep, i) ==
    IF i > Len(s) THEN <<>>
    ELSE (IF i \in keep THEN <<s[i]>> ELSE <<>>) \o SeqFilterIdx(s, keep, i + 1)

-----------------------------------------------------------------------------
(* The client context and the remote site.                                 *)

\* The identity of a client-side object that a query can materialise.
Key(k, name, path) == [k |-> k, name |-> name, path |-> path]

\* The ClientContexts are numbered as get_connection_sharepoint makes them:
\* 1, 2, ...; 0 stands for a context that the manager did not make.  Epoch
\* is the number of the last one made.
Epoch == Cardinality(DOMAIN queues) - 1

\* The world before any context is made: the remote site as it is, nothing
\* staged, nothing materialised; round trip number failAt (0: none) fails.
\* pending is the queue of context number epoch, stale holds the queues of
\* the contexts before it; ids maps the items that the call added to the Id
\* each was given.
WorldOf(l, u, fo, fi, c, failAt) ==
    [lists |-> l, users |-> u, folders |-> fo, files |-> fi,
     ctx |-> c, pending |-> <<>>, loaded |-> EmptyMap, rt |-> 0, failAt |-> failAt,
     log |-> <<>>, err |-> NoErr, ret |-> NoRet, os |-> platform,
     epoch |-> 0, stale |-> EmptyMap, ids |-> EmptyMap, call |-> 0]

\* The world at the start of a call: every context keeps the queries it has
\* not sent.
World(failAt) ==
    [WorldOf(lists, users, folders, files, ctx, failAt) EXCEPT
        !.epoch = Epoch,
        !.pending = queues[Epoch],
        !.stale = [c \in 0..(Epoch - 1) |-> queues[c]],
        !.call = calls + 1]

\* The queues of a world, by context.
QueuesOf(w) == [c \in 0..w.epoch |-> IF c = w.epoch THEN w.pending ELSE w.stale[c]]

\* The queries that no context has sent, oldest context first.
RECURSIVE UnsentFrom(_, _)
UnsentFrom(w, c) == IF c > w.epoch THEN <<>> ELSE QueuesOf(w)[c] \o UnsentFrom(w, c + 1)
Unsent(w) == UnsentFrom(w, 0)

\* ClientContext(url, ctx_auth): a new context, with an empty queue.
NewContext(w) ==
    [w EXCEPT !.ctx = "ok", !.stale = QueuesOf(w), !.pending = <<>>, !.epoch = w.epoch + 1]

Raise(w, e) == IF w.err # NoErr THEN w ELSE [w EXCEPT !.err = e]

Return(w, v) == IF w.err # NoErr THEN w ELSE [w EXCEPT !.ret = v]

\* Stage a query on the context's queue (ctx.load, delete_object, ...).
Stage(w, q) ==
    IF w.err # NoErr THEN w
    ELSE [w EXCEPT !.pending = Append(@, q),
                   !.log = Append(@, [e |-> q.q, key |-> q.key, n |-> 0])]

\* Stage a query through an object: it goes to the queue of the context c
\* that the object was made from (ClientObject.context).
StageOn(w, c, q) ==
    IF w.err # NoErr THEN w
    ELSE IF c = w.epoch THEN Stage(w, q)
    ELSE [w EXCEPT !.stale[c] = Append(@, q),
                   !.log = Append(@, [e |-> q.q, key |-> q.key, n |-> 0])]

\* Any attribute access on the context: an unset context (None) raises.
CtxAttr(w) == IF w.ctx = "unset" THEN Raise(w, Err("AttributeError", <<>>)) ELSE w

\* ctx.load(obj)
ctx_load(w, key) == Stage(CtxAttr(w), [q |-> "load", key |-> key])

\* Files directly in folder p, in retrieval order (by name).
FilesIn(fs, p) == {f \in fs : f.dir = p}

\* Direct subfolders of folder p.
SubfoldersOf(fo, p) == {q \in fo : Len(q) = Len(p) + 1 /\ SubSeq(q, 1, Len(p)) = p}

\* A set of comparable elements as a sequence, in a fixed retrieval order.
RECURSIVE SetToSeq(_)
SetToSeq(S) ==
    IF S = {} THEN <<>>
    ELSE LET x == CHOOSE y \in S : TRUE IN <<x>> \o SetToSeq(S \ {x})

\* What the site answers to a staged load: the data, or that there is none.
RemoteExists(w, key) ==
    CASE key.k = "items" -> key.name \in DOMAIN w.lists
      [] key.k = "attachments" -> key.name \in DOMAIN w.lists
      [] key.k \in {"folder", "files", "folders"} -> key.path \in w.folders
      [] OTHER -> TRUE

RemoteData(w, key) ==
    CASE key.k = "items" -> w.lists[key.name].items
      [] key.k = "attachments" ->
           SetToSeq({a \in w.lists[key.name].attachments : <<a.id>> = key.path})
      [] key.k = "site_users" -> w.users
      [] key.k = "files" -> SetToSeq(FilesIn(w.files, key.path))
      [] key.k = "folders" -> SetToSeq(SubfoldersOf(w.folders, key.path))
      [] OTHER -> <<>>

\* The position of the item with identifier id in a remote list (0: none).
IndexOfId(items, id) ==
    IF \E i \in 1..Len(items) : items[i]["Id"] = id
    THEN CHOOSE i \in 1..Len(items) :
            /\ items[i]["Id"] = id
            /\ \A j \in 1..(i - 1) : items[j]["Id"] # id
    ELSE 0

\* A mapping with column c set to v.
SetCol(props, c, v) == [x \in DOMAIN props \cup {c} |-> IF x = c THEN v ELSE props[x]]

\* The site applies one staged query.
ApplyQuery(w, q) ==
    CASE q.q = "load" ->
           IF RemoteExists(w, q.key)
           THEN [w EXCEPT !.loaded =
                    [k \in DOMAIN w.loaded \cup {q.key} |->
                        IF k = q.key THEN RemoteData(w, q.key) ELSE w.loaded[k]]]
           ELSE [w EXCEPT !.err = Err("NotFound", <<>>)]
      [] q.q = "add_list" ->
           IF q.key.name \in DOMAIN w.lists
           THEN [w EXCEPT !.err = Err("AlreadyExists", <<>>)]
           ELSE [w EXCEPT !.lists =
                    [n \in DOMAIN w.lists \cup {q.key.name} |->
                        IF n = q.key.name THEN [items |-> <<>>, nextId |-> 1, attachments |-> {}]
                        ELSE w.lists[n]]]
      [] q.q = "add_item" ->
           IF q.key.name \notin DOMAIN w.lists
           THEN [w EXCEPT !.err = Err("NotFound", <<>>)]
           ELSE LET l == w.lists[q.key.name]
                    item == SetCol(q.info, "Id", IntV(l.nextId))
                IN [w EXCEPT !.lists[q.key.name] =
                        [items |-> Append(l.items, item), nextId |-> l.nextId + 1,
                         attachments |-> l.attachments],
                             !.ids = [r \in DOMAIN w.ids \cup {q.ref} |->
                                        IF r = q.ref THEN l.nextId ELSE w.ids[r]]]
      [] q.q = "add_attachment" ->
           IF q.key.name \notin DOMAIN w.lists \/ q.ref \notin DOMAIN w.ids
           THEN [w EXCEPT !.err = Err("NotFound", <<>>)]
           ELSE IF IndexOfId(w.lists[q.key.name].items, IntV(w.ids[q.ref])) = 0
           THEN [w EXCEPT !.err = Err("NotFound", <<>>)]
           ELSE [w EXCEPT !.lists[q.key.name].attachments =
                    @ \cup {[id |-> ToString(w.ids[q.ref]), name |-> q.name,
                             data |-> q.data]}]
      [] q.q = "update_item" ->
           IF q.key.name \notin DOMAIN w.lists
           THEN [w EXCEPT !.err = Err("NotFound", <<>>)]
           ELSE LET i == IndexOfId(w.lists[q.key.name].items, q.id) IN
                IF i = 0 THEN [w EXCEPT !.err = Err("NotFound", <<>>)]
                ELSE [w EXCEPT !.lists[q.key.name].items[i] = SetCol(@, q.column, q.value)]
      [] q.q = "delete_item" ->
           IF q.key.name \notin DOMAIN w.lists
           THEN [w EXCEPT !.err = Err("NotFound", <<>>)]
           ELSE LET its == w.lists[q.key.name].items
                    i == IndexOfId(its, q.id) IN
                IF i = 0 THEN [w EXCEPT !.err = Err("NotFound", <<>>)]
                ELSE [w EXCEPT !.lists[q.key.name].items =
                        SeqFilterIdx(its, (1..Len(its)) \ {i}, 1)]
      [] q.q = "add_folder" ->
           IF Len(q.key.path) = 0 \/ SubSeq(q.key.path, 1, Len(q.key.path) - 1) \notin w.folders
           THEN [w EXCEPT !.err = Err("NotFound", <<>>)]
           ELSE [w EXCEPT !.folders = @ \cup {q.key.path}]
      [] q.q = "upload_file" ->
           IF q.key.path \notin w.folders
           THEN [w EXCEPT !.err = Err("NotFound", <<>>)]
           ELSE [w EXCEPT !.files =
                    {f \in @ : ~(f.dir = q.key.path /\ f.name = q.name)}
                    \cup {[dir |-> q.key.path, name |-> q.name, data |-> q.data]}]
      [] q.q = "delete_file" ->
           IF ~\E f \in w.files : f.dir = q.key.path /\ f.name = q.name
           THEN [w EXCEPT !.err = Err("NotFound", <<>>)]
           ELSE [w EXCEPT !.files = {f \in @ : ~(f.dir = q.key.path /\ f.name = q.name)}]
      [] q.q = "delete_folder" ->
           IF q.key.path \notin w.folders
           THEN [w EXCEPT !.err = Err("NotFound", <<>>)]
           ELSE IF FilesIn(w.files, q.key.path) # {} \/ SubfoldersOf(w.folders, q.key.path) # {}
           THEN [w EXCEPT !.err = Err("FolderNotEmpty", <<>>)]
           ELSE [w EXCEPT !.folders = @ \ {q.key.path}]
      [] OTHER -> w

\* What the log keeps of a query reaching the site: for a folder's delete, the
\* number of files and subfolders the folder holds at that moment.
Flushed(w, q) ==
    [e |-> "flush_" \o q.q, key |-> q.key,
     n |-> IF q.q = "delete_folder"
           THEN Cardinality(FilesIn(w.files, q.key.path))
                + Cardinality(SubfoldersOf(w.folders, q.key.path))
           ELSE 0]

RECURSIVE ApplyQueries(_, _, _)
ApplyQueries(w, qs, i) ==
    IF i > Len(qs) \/ w.err # NoErr THEN w
    ELSE ApplyQueries(ApplyQuery([w EXCEPT !.log = Append(@, Flushed(w, qs[i]))], qs[i]),
                      qs, i + 1)

\* Context c sends its queue: one round trip flushing every query staged on
\* it, in order.  A failed round trip applies nothing and raises.
Flush(w, c) ==
    LET n == w.rt + 1
        qs == QueuesOf(w)[c]
        w0 == IF c = w.epoch THEN [w EXCEPT !.pending = <<>>] ELSE [w EXCEPT !.stale[c] = <<>>]
        w1 == [w0 EXCEPT !.rt = n,
                         !.log = Append(@, [e |-> "execute",
                                            key |-> Key("ctx", "", <<>>), n |-> n])]
    IN IF n = w.failAt THEN [w1 EXCEPT !.err = Err("RoundTripFailed", <<>>)]
       ELSE ApplyQueries(w1, qs, 1)

\* ctx.execute_query(): the round trip of the context that ctx holds.
ctx_execute_query(w) ==
    IF w.err # NoErr THEN w
    ELSE IF w.ctx = "unset" THEN Raise(w, Err("AttributeError", <<>>))
    ELSE Flush(w, w.epoch)

\* obj.execute_query(): the round trip of the context c that the object was
\* made from.
ExecuteOn(w, c) == IF w.err # NoErr THEN w ELSE Flush(w, c)

\* The client reads a collection object: its materialised data, or nothing
\* when it was never loaded and executed.
Read(w, key) == IF key \in DOMAIN w.loaded THEN w.loaded[key] ELSE <<>>

\* Record in the log that the function iterates, inspects or returns an object.
Use(w, key) ==
    IF w.err # NoErr THEN w
    ELSE [w EXCEPT !.log = Append(@, [e |-> "use", key |-> key, n |-> 0])]

-----------------------------------------------------------------------------
(* The functional layer: list items and site users.                        *)

\* filters = None
NoFilters == [none |-> TRUE, fs |-> <<>>]
Filters(fs) == [none |-> FALSE, fs |-> fs]

\* Information(column, value)
Information(c, v) == [column |-> c, value |-> v]

\* get_connection_list(ctx, list_name): ctx.web.lists.get_by_title(list_name),
\* a reference by title that no round trip resolves yet.
get_connection_list(w, list_name) ==
    Return(CtxAttr(w), [kind |-> "list", title |-> list_name, ctx |-> w.epoch])

\* any() where the code has all().
RECURSIVE AllMatch_any(_, _, _)
AllMatch_any(item, fs, j) ==
    IF j > Len(fs) THEN "false"
    ELSE IF fs[j].column \notin DOMAIN item THEN "KeyError"
    ELSE IF str(item[fs[j].column]) = fs[j].value THEN "true"
    ELSE AllMatch_any(item, fs, j + 1)

\* all(str(item.properties[query.column]) == query.value for query in filters):
\* "true", "false", or "KeyError" when a column that is reached is no property.
RECURSIVE AllMatch(_, _, _)
AllMatch(item, fs, j) ==
    IF j > Len(fs) THEN "true"
    ELSE IF fs[j].column \notin DOMAIN item THEN "KeyError"
    ELSE IF str(item[fs[j].column]) = fs[j].value THEN AllMatch(item, fs, j + 1)
    ELSE "false"

\* The list comprehension of lines 222-228 from item i on: the items kept so
\* far, and whether a KeyError ended it.
RECURSIVE Comprehension(_, _, _, _)
Comprehension(items, fs, i, acc) ==
    IF i > Len(items) THEN [kept |-> acc, raised |-> FALSE]
    ELSE LET m == AllMatch(items[i], fs, 1) IN
         IF m = "KeyError" THEN [kept |-> acc, raised |-> TRUE]
         ELSE Comprehension(items, fs, i + 1,
                            IF m = "true" THEN Append(acc, items[i]) ELSE acc)

get_info_list(w, list_sharepoint, filters) ==
    LET items == Key("items", list_sharepoint.title, <<>>)
        w1 == ctx_load(w, items)
        w2 == ctx_execute_query(w1)
        w3 == Use(w2, items)
        c == Comprehension(Read(w3, items), filters.fs, 1, <<>>)
    IN IF filters.none THEN Return(w3, [kind |-> "items", v |-> Read(w3, items)])
       ELSE IF c.raised THEN Raise(w3, Err("KeyError", <<>>))
       ELSE Return(w3, [kind |-> "items", v |-> c.kept])

\* The loop without its early return: the last match wins.
RECURSIVE FirstUser_last(_, _, _)
FirstUser_last(us, professional_id, i) ==
    IF i > Len(us) THEN NoneV
    ELSE LET rest == FirstUser_last(us, professional_id, i + 1) IN
         IF rest # NoneV THEN rest
         ELSE IF us[i]["Id"] = professional_id THEN us[i]["UserPrincipalName"]
         ELSE NoneV

\* The loop of lines 258-260 from user i on.
RECURSIVE FirstUser(_, _, _)
FirstUser(us, professional_id, i) ==
    IF i > Len(us) THEN NoneV
    ELSE IF us[i]["Id"] = professional_id THEN us[i]["UserPrincipalName"]
    ELSE FirstUser(us, professional_id, i + 1)

get_email_user(w, professional_id) ==
    LET site_users == Key("site_users", "", <<>>)
        w1 == ctx_load(CtxAttr(w), site_users)
        w2 == ctx_execute_query(w1)
        w3 == Use(w2, site_users)
    IN Return(w3, [kind |-> "value", v |-> FirstUser(Read(w3, site_users), professional_id, 1)])

\* extract_attachment_files(ctx, item)
extract_attachment_files(w, item) ==
    LET attachment_files == Key("attachments", item.list, <<str(item.id)>>)
        w1 == ctx_load(w, attachment_files)
        w2 == ctx_execute_query(w1)
        w3 == Use(w2, attachment_files)
    IN Return(w3, [kind |-> "attachments", v |-> Read(w3, attachment_files)])

\* The selection without its condition: every item.
ItemSelection_all(items, id_item, i) == items

\* item_selection = [item for item in items if item.properties["Id"] == id_item]
RECURSIVE ItemSelection(_, _, _)
ItemSelection(items, id_item, i) ==
    IF i > Len(items) THEN <<>>
    ELSE (IF items[i]["Id"] = id_item THEN <<items[i]>> ELSE <<>>)
         \o ItemSelection(items, id_item, i + 1)

\* The loop leaving after its first Information.
UpdateLoop_first(w, list_sharepoint, item, update_info, i) ==
    IF Len(update_info) = 0 \/ w.err # NoErr THEN w
    ELSE ctx_execute_query(
            StageOn(w, list_sharepoint.ctx,
                    [q |-> "update_item", key |-> Key("item", list_sharepoint.title, <<>>),
                     id |-> item["Id"], column |-> update_info[1].column,
                     value |-> StrV(update_info[1].value)]))

\* The loop of lines 326-329 from update i on: one set_property, update and
\* execute_query per Information.  item.update() is queued on the context of
\* the item, which is that of the list handle.
RECURSIVE UpdateLoop(_, _, _, _, _)
UpdateLoop(w, list_sharepoint, item, update_info, i) ==
    IF i > Len(update_info) \/ w.err # NoErr THEN w
    ELSE LET w1 == StageOn(w, list_sharepoint.ctx,
                           [q |-> "update_item",
                            key |-> Key("item", list_sharepoint.title, <<>>),
                            id |-> item["Id"], column |-> update_info[i].column,
                            value |-> StrV(update_info[i].value)])
             w2 == ctx_execute_query(w1)
         IN UpdateLoop(w2, list_sharepoint, item, update_info, i + 1)

update_list(w, list_sharepoint, id_item, update_info) ==
    LET items == Key("items", list_sharepoint.title, <<>>)
        w1 == ctx_load(w, items)
        w2 == ctx_execute_query(w1)
        w3 == Use(w2, items)
        item_selection == ItemSelection(Read(w3, items), id_item, 1)
    IN IF Len(item_selection) > 0
       THEN UpdateLoop(w3, list_sharepoint, item_selection[1], update_info, 1)
       ELSE Raise(w3, Err("SharepointErrors",
                          <<"The item ", str(id_item), " do nor exist in the sharepoint list">>))

\* create_list(ctx, list_name)
create_list(w, list_name) ==
    ctx_execute_query(Stage(CtxAttr(w), [q |-> "add_list", key |-> Key("list", list_name, <<>>)]))

\* delete_item_list(ctx, item): item.delete_object() is queued on the context
\* of the item.
delete_item_list(w, item) ==
    ctx_execute_query(StageOn(w, item.ctx,
                              [q |-> "delete_item", key |-> Key("item", item.list, <<>>),
                               id |-> item.id]))

-----------------------------------------------------------------------------
(* Strings that the code takes apart are sequences of characters.          *)

\* s.split(sep) from position i on: cur is the segment being read.
RECURSIVE SplitFrom(_, _, _, _)
SplitFrom(s, sep, i, cur) ==
    IF i > Len(s) THEN <<cur>>
    ELSE IF s[i] = sep THEN <<cur>> \o SplitFrom(s, sep, i + 1, <<>>)
    ELSE SplitFrom(s, sep, i + 1, Append(cur, s[i]))

split(s, sep) == SplitFrom(s, sep, 1, <<>>)

\* segments[0]
LastOf_first(segments) == segments[1]

\* segments[-1]
LastOf(segments) == segments[Len(segments)]

\* The platforms of the process, and the separators of os.path on each.
Platforms == {"posix", "nt"}
Seps(os) == IF os = "nt" THEN {"/", "\\"} ELSE {"/"}

\* The first position from i on that holds a separator of ntpath, 0 when
\* there is none: normp.find(sep, i).
RECURSIVE FindSep(_, _)
FindSep(p, i) ==
    IF i > Len(p) THEN 0
    ELSE IF p[i] \in Seps("nt") THEN i
    ELSE FindSep(p, i + 1)

\* normp[:8].upper() == "\\\\?\\UNC\\"
IsUncPrefix(p) ==
    /\ Len(p) >= 8
    /\ \A i \in {1, 2, 4, 8} : p[i] \in Seps("nt")
    /\ p[3] = "?"
    /\ p[5] \in {"U", "u"}
    /\ p[6] \in {"N", "n"}
    /\ p[7] \in {"C", "c"}

\* The length of the drive that ntpath.splitdrive(p) splits off (Python 3.11):
\* a UNC or device drive, a drive letter with its colon, or nothing.
DriveLen(p) ==
    IF Len(p) < 2 THEN 0
    ELSE IF p[1] \in Seps("nt") /\ p[2] \in Seps("nt")
    THEN LET index == FindSep(p, IF IsUncPrefix(p) THEN 9 ELSE 3)
             index2 == IF index = 0 THEN 0 ELSE FindSep(p, index + 1)
         IN IF index = 0 \/ index2 = 0 THEN Len(p) ELSE index2 - 1
    ELSE IF p[2] = ":" THEN 2
    ELSE 0

\* The part of p after its last separator of platform os.
AfterLastSep(os, p) ==
    LET S == {i \in 1..Len(p) : p[i] \in Seps(os)}
        k == IF S = {} THEN 0 ELSE CHOOSE i \in S : \A j \in S : j <= i
    IN SubSeq(p, k + 1, Len(p))

\* os.path.basename(path): posixpath.basename takes what follows the last
\* "/"; ntpath.basename drops the drive and takes what follows the last "/"
\* or backslash.
basename(os, path) ==
    IF os = "nt" THEN AfterLastSep("nt", SubSeq(path, DriveLen(path) + 1, Len(path)))
    ELSE LastOf(split(path, "/"))

\* A local file: open(path, "rb") and read(), which raises when the file
\* cannot be opened.
NoName == [none |-> TRUE, v |-> <<>>]
Name(v) == [none |-> FALSE, v |-> v]

\* file_upload: a path string, an io.BytesIO, or anything else.  fs is what
\* the file system holds at the path: a readable file ("file"), nothing
\* ("missing"), a directory that may be opened ("dir"), a file or a directory
\* that the process may not read or reach ("denied"), a file where the path
\* needs a directory ("notdir"), or something that open fails on with an
\* error of no subclass of OSError, as a symlink loop or no file descriptor
\* left ("oserror").
PathSource(path, fs, data) == [kind |-> "str", path |-> path, fs |-> fs, data |-> data]
BytesSource(data) == [kind |-> "BytesIO", path |-> <<>>, fs |-> "none", data |-> data]
OtherSource == [kind |-> "other", path |-> <<>>, fs |-> "none", data |-> ""]

FsStates == {"file", "missing", "dir", "denied", "notdir", "oserror"}

\* open(path, "rb") succeeds.
Readable(src) == src.fs = "file"

\* Path p can name a file on platform os: it has a last component, which is
\* not "." or ".." (on nt: not made of dots only), and on nt it is not the
\* drive alone.
CanBeFile(os, p) ==
    LET rest == IF os = "nt" THEN SubSeq(p, DriveLen(p) + 1, Len(p)) ELSE p
        t == AfterLastSep(os, rest)
    IN /\ t # <<>>
       /\ t \notin {<<".">>, <<".", ".">>}
       /\ os = "nt" => \E i \in 1..Len(t) : t[i] # "."

\* Path p names a directory whatever the file system holds: it is made of
\* separators, "." and ".." only (on nt: with no drive).
AlwaysDir(os, p) ==
    /\ p # <<>>
    /\ os = "nt" => DriveLen(p) = 0
    /\ \A i \in 1..Len(p) : p[i] \in Seps(os) \cup {"."}
    /\ \A i \in 1..(Len(p) - 2) : ~(p[i] = "." /\ p[i + 1] = "." /\ p[i + 2] = ".")

\* The file system of platform os can hold fs at path p.  A path through a
\* file (p[1..i-1] names a file and p[i] is a separator) is ENOTDIR on posix
\* only; nt reports it as a missing path.
FsPossible(os, p, fs) ==
    CASE fs = "missing" -> ~AlwaysDir(os, p)
      [] fs \in {"dir", "denied", "oserror"} -> p # <<>>
      [] fs = "file" -> CanBeFile(os, p)
      [] fs = "notdir" ->
            /\ os = "posix"
            /\ \E i \in 2..Len(p) : p[i] = "/" /\ CanBeFile(os, SubSeq(p, 1, i - 1))
      [] OTHER -> FALSE

\* The OSError that open(path, "rb") raises.
OpenError(os, fs) ==
    CASE fs = "dir" -> IF os = "nt" THEN "PermissionError" ELSE "IsADirectoryError"
      [] fs = "denied" -> "PermissionError"
      [] fs = "notdir" -> "NotADirectoryError"
      [] fs = "oserror" -> "OSError"
      [] OTHER -> "FileNotFoundError"

OpenErrors == {Err(OpenError(os, fs), <<>>) : os \in Platforms, fs \in FsStates \ {"file"}}

open_read(w, src) ==
    IF w.err # NoErr THEN w
    ELSE LET w1 == [w EXCEPT !.log = Append(@, [e |-> "open", key |-> Key("file", "", src.path),
                                                n |-> 0])]
         IN IF Readable(src) THEN w1 ELSE Raise(w1, Err(OpenError(w.os, src.fs), <<>>))

-----------------------------------------------------------------------------
(* The functional layer: items with attachments, folders and files.        *)

\* execute_query with no add_item before it.
add_new_item_unqueued(w, list_sharepoint, information, attachment) ==
    ctx_execute_query(w)

\* The attachment read before the item is added.
add_new_item_readfirst(w, list_sharepoint, information, attachment) ==
    LET title == list_sharepoint.title
        c == list_sharepoint.ctx
        w0 == IF attachment.none \/ attachment.path = <<>> THEN w ELSE open_read(w, attachment)
        w2 == ctx_execute_query(
                StageOn(w0, c, [q |-> "add_item", key |-> Key("item", title, <<>>),
                                info |-> information, ref |-> w.call]))
    IN IF attachment.none \/ attachment.path = <<>> THEN w2
       ELSE ExecuteOn(
              StageOn(w2, c, [q |-> "add_attachment", key |-> Key("item", title, <<>>),
                              ref |-> w.call, name |-> basename(w.os, attachment.path),
                              data |-> attachment.data]), c)

\* add_new_item(ctx, list_sharepoint, information, attachment): the item and
\* its attachment are queued on the context of the list handle; line 390 sends
\* the queue of ctx, line 397 the queue of the item's context.
add_new_item(w, list_sharepoint, information, attachment) ==
    LET title == list_sharepoint.title
        c == list_sharepoint.ctx
        w1 == StageOn(w, c, [q |-> "add_item", key |-> Key("item", title, <<>>),
                             info |-> information, ref |-> w.call])
        w2 == ctx_execute_query(w1)
    IN IF attachment.none \/ attachment.path = <<>> THEN w2
       ELSE LET w3 == open_read(w2, attachment)
                w4 == StageOn(w3, c, [q |-> "add_attachment",
                                      key |-> Key("item", title, <<>>), ref |-> w.call,
                                      name |-> basename(w.os, attachment.path),
                                      data |-> attachment.data])
            IN ExecuteOn(w4, c)

\* get_connection_folder(ctx, folder_name)
get_connection_folder(w, folder_name) ==
    Return(CtxAttr(w), [kind |-> "folder", path |-> folder_name, ctx |-> w.epoch])

\* get_info_folders(ctx, folder_sharepoint)
get_info_folders(w, folder_sharepoint) ==
    LET fo == Key("folders", "", folder_sharepoint.path)
        w1 == ctx_load(w, fo)
        w2 == ctx_execute_query(w1)
        w3 == Use(w2, fo)
    IN Return(w3, [kind |-> "folders", v |-> Read(w3, fo)])

\* ctx.load(files) with no execute_query after it.
get_info_files_unsent(w, file_sharepoint) ==
    LET fi == Key("files", "", file_sharepoint.path)
        w3 == Use(ctx_load(w, fi), fi)
    IN Return(w3, [kind |-> "files", v |-> Read(w3, fi)])

\* get_info_files(ctx, file_sharepoint)
get_info_files(w, file_sharepoint) ==
    LET fi == Key("files", "", file_sharepoint.path)
        w1 == ctx_load(w, fi)
        w2 == ctx_execute_query(w1)
        w3 == Use(w2, fi)
    IN Return(w3, [kind |-> "files", v |-> Read(w3, fi)])

\* f"{relative_path}/{folder_name}": the path one level below relative_path.
JoinPath(relative_path, folder_name) == Append(relative_path, folder_name)

\* create_folder(ctx, relative_path, folder_name)
create_folder(w, relative_path, folder_name) ==
    ctx_execute_query(Stage(CtxAttr(w),
        [q |-> "add_folder", key |-> Key("folder", "", JoinPath(relative_path, folder_name))]))

\* properties["Name"] of a folder: the last name of its path.
FolderName(path) == path[Len(path)]

\* list_sub_folder of lines 452-454, built index by index.
RECURSIVE ListSubFolder(_, _)
ListSubFolder(sub_folders, index) ==
    IF index > Len(sub_folders) THEN <<>>
    ELSE <<FolderName(sub_folders[index])>> \o ListSubFolder(sub_folders, index + 1)

\* A comparison that ignores case.
Lower(name) == IF name \in {"Docs", "DOCS"} THEN "docs" ELSE name
InList_lower(x, l) == \E i \in 1..Len(l) : Lower(l[i]) = Lower(x)

\* folder_name in list_sub_folder
InList(x, l) == \E i \in 1..Len(l) : l[i] = x

is_sharepoint_folder(w, relative_path, folder_name) ==
    LET sub_folders == Key("folders", "", relative_path)
        w1 == ctx_load(CtxAttr(w), sub_folders)
        w2 == ctx_execute_query(w1)
        w3 == Use(w2, sub_folders)
        list_sub_folder == ListSubFolder(Read(w3, sub_folders), 1)
    IN Return(w3, [kind |-> "bool", v |-> InList(folder_name, list_sub_folder)])

\* The else branch of lines 492-493 left out: a source of another type
\* goes on to the upload.
upload_file_sharepoint_untyped(w, relative_path, file_upload, file_name) ==
    LET w2 == IF file_upload.kind = "str" THEN open_read(CtxAttr(w), file_upload)
              ELSE CtxAttr(w)
        name == IF file_name.none THEN <<>> ELSE file_name.v
    IN ctx_execute_query(
          Stage(w2, [q |-> "upload_file", key |-> Key("folder", "", relative_path),
                     name |-> name, data |-> file_upload.data]))

\* upload_file_sharepoint(ctx, relative_path, file_upload, file_name)
upload_file_sharepoint(w, relative_path, file_upload, file_name) ==
    LET w1 == CtxAttr(w)
        w2 == CASE file_upload.kind = "str" -> open_read(w1, file_upload)
                [] file_upload.kind = "BytesIO" -> w1
                [] OTHER -> Raise(w1, Err("TypeError",
                        <<"El argumento file_upload debe ser una ruta de archivo o un objeto io.BytesIO">>))
        \* file_upload.split: an io.BytesIO has no such attribute
        w3 == IF file_name.none /\ file_upload.kind # "str"
              THEN Raise(w2, Err("AttributeError", <<>>)) ELSE w2
        name == IF file_name.none THEN LastOf(split(file_upload.path, "\\")) ELSE file_name.v
        w4 == Stage(w3, [q |-> "upload_file", key |-> Key("folder", "", relative_path),
                         name |-> name, data |-> file_upload.data])
    IN ctx_execute_query(w4)

\* The loop left after its first file.
StageFileDeletes_first(w, fs, i) ==
    IF i > Len(fs) THEN w
    ELSE Stage(w, [q |-> "delete_file", key |-> Key("folder", "", fs[i].dir),
                   name |-> fs[i].name])

\* The loop of lines 528-529 from file i on: each delete is staged.
RECURSIVE StageFileDeletes(_, _, _)
StageFileDeletes(w, fs, i) ==
    IF i > Len(fs) THEN w
    ELSE StageFileDeletes(
            Stage(w, [q |-> "delete_file", key |-> Key("folder", "", fs[i].dir),
                      name |-> fs[i].name]), fs, i + 1)

RECURSIVE delete_folder_with_contents(_, _)
RECURSIVE DeleteSubfolders(_, _, _)

\* The loop with the recursive call in a try whose except goes on.
DeleteSubfolders_swallow(w, subfolders, i) ==
    IF i > Len(subfolders) \/ w.err # NoErr THEN w
    ELSE DeleteSubfolders([delete_folder_with_contents(w, subfolders[i]) EXCEPT !.err = NoErr],
                          subfolders, i + 1)

\* The loop of lines 536-537 from subfolder i on.
DeleteSubfolders(w, subfolders, i) ==
    IF i > Len(subfolders) \/ w.err # NoErr THEN w
    ELSE DeleteSubfolders(delete_folder_with_contents(w, subfolders[i]), subfolders, i + 1)

\* The function without its last two lines: the folder itself is kept.
delete_folder_with_contents_keep(w, folder_path) ==
    IF w.err # NoErr THEN w
    ELSE
    LET folder == Key("folder", "", folder_path)
        w2 == ctx_execute_query(ctx_load(CtxAttr(w), folder))
        fi == Key("files", "", folder_path)
        w4 == ctx_execute_query(ctx_load(Use(w2, folder), fi))
        w6 == ctx_execute_query(StageFileDeletes(Use(w4, fi), Read(w4, fi), 1))
        subfolders == Key("folders", "", folder_path)
        w8 == ctx_execute_query(ctx_load(w6, subfolders))
    IN DeleteSubfolders(Use(w8, subfolders), Read(w8, subfolders), 1)

\* The function deleting the folder itself before its subfolders.
delete_folder_with_contents_early(w, folder_path) ==
    IF w.err # NoErr THEN w
    ELSE
    LET folder == Key("folder", "", folder_path)
        w2 == ctx_execute_query(ctx_load(CtxAttr(w), folder))
        fi == Key("files", "", folder_path)
        w4 == ctx_execute_query(ctx_load(Use(w2, folder), fi))
        w6 == ctx_execute_query(StageFileDeletes(Use(w4, fi), Read(w4, fi), 1))
        subfolders == Key("folders", "", folder_path)
        w8 == ctx_execute_query(ctx_load(w6, subfolders))
        w9 == ctx_execute_query(Stage(Use(w8, subfolders), [q |-> "delete_folder", key |-> folder]))
    IN DeleteSubfolders(w9, Read(w8, subfolders), 1)

\* delete_folder_with_contents(ctx, folder_path)
delete_folder_with_contents(w, folder_path) ==
    IF w.err # NoErr THEN w
    ELSE
    LET folder == Key("folder", "", folder_path)
        w1 == ctx_load(CtxAttr(w), folder)
        w2 == ctx_execute_query(w1)
        \* Delete files
        fi == Key("files", "", folder_path)
        w3 == ctx_load(Use(w2, folder), fi)
        w4 == ctx_execute_query(w3)
        w5 == StageFileDeletes(Use(w4, fi), Read(w4, fi), 1)
        w6 == ctx_execute_query(w5)
        \* Delete subfolders recursively
        subfolders == Key("folders", "", folder_path)
        w7 == ctx_load(w6, subfolders)
        w8 == ctx_execute_query(w7)
        w9 == DeleteSubfolders(Use(w8, subfolders), Read(w8, subfolders), 1)
        \* Delete the folder itself
        w10 == Stage(w9, [q |-> "delete_folder", key |-> folder])
    IN ctx_execute_query(w10)

\* print(f"The connection to {url} failed")
Emit(w) == [w EXCEPT !.log = Append(@, [e |-> "print", key |-> Key("ctx", "", <<>>), n |-> 0])]

\* A failed acquisition raised to the caller, where the code prints and
\* returns None.
get_connection_sharepoint_raise(w, token) ==
    IF token
    THEN LET w0 == NewContext(w)
             w2 == ctx_execute_query(ctx_load(w0, Key("web", "", <<>>)))
         IN Return(w2, [kind |-> "ctx", v |-> "ok"])
    ELSE Raise(w, Err("AuthenticationError", <<>>))

\* get_connection_sharepoint(url, username, password): the context, or None
\* after a printed message when no token is acquired.
get_connection_sharepoint(w, token) ==
    IF token
    THEN LET w0 == NewContext(w)
             web == Key("web", "", <<>>)
             w1 == ctx_load(w0, web)
             w2 == ctx_execute_query(w1)
         IN Return(w2, [kind |-> "ctx", v |-> "ok"])
    ELSE Return(Emit(w), [kind |-> "ctx", v |-> "unset"])

-----------------------------------------------------------------------------
(* SharepointManagement: every method is one action.                       *)

\* A call ends: the site is as the call left it, and the outcome is recorded.
Finish(op, args, w) ==
    /\ lists' = w.lists
    /\ users' = w.users
    /\ folders' = w.folders
    /\ files' = w.files
    /\ queues' = QueuesOf(w)
    /\ last' = [op |-> op, args |-> args, ret |-> w.ret, err |-> w.err,
                log |-> w.log, pending |-> Unsent(w), rt |-> w.rt,
                before |-> [lists |-> lists, folders |-> folders, files |-> files],
                trace |-> Append(last.trace, [op |-> op, args |-> args, err |-> w.err])]
    /\ calls' = calls + 1
    /\ platform' = platform

\* self.list_conexion[name] or self.folder_conexion[name] with no such entry.
KeyError(w) == Raise(w, Err("KeyError", <<>>))

\* dict.setdefault where the code assigns: an entry once made is kept.
Put_setdefault(m, k, v) == [x \in DOMAIN m \cup {k} |-> IF x \in DOMAIN m THEN m[x] ELSE v]

\* A mapping with key k set to v.
Put(m, k, v) == [x \in DOMAIN m \cup {k} |-> IF x = k THEN v ELSE m[x]]

\* The object that a get_by_title or get_folder_by_server_relative_url call
\* makes: the reference h, as the n-th object made for the manager.
Made(h, n) == [x \in DOMAIN h \cup {"obj"} |-> IF x = "obj" THEN n ELSE h[x]]

\* get_conexion_sharepoint(): self.ctx becomes what get_connection_sharepoint
\* returns, the context or None; the cached handles stay as they are.
SM_get_conexion_sharepoint(token) ==
    LET w == get_connection_sharepoint(World(0), token) IN
    /\ ctx' = IF w.err = NoErr THEN w.ret.v ELSE ctx
    /\ Finish("get_conexion_sharepoint", [token |-> token], [w EXCEPT !.ret = NoRet])
    /\ UNCHANGED <<list_conexion, folder_conexion>>

SM_get_conexion_list(list_name) ==
    LET w == get_connection_list(World(0), list_name) IN
    /\ list_conexion' = IF w.err = NoErr
                        THEN Put(list_conexion, list_name, Made(w.ret, calls + 1))
                        ELSE list_conexion
    /\ Finish("get_conexion_list", [list_name |-> list_name], [w EXCEPT !.ret = NoRet])
    /\ UNCHANGED <<ctx, folder_conexion>>

SM_get_conexion_folder(folder_name) ==
    LET w == get_connection_folder(World(0), folder_name) IN
    /\ folder_conexion' = IF w.err = NoErr
                          THEN Put(folder_conexion, folder_name, Made(w.ret, calls + 1))
                          ELSE folder_conexion
    /\ Finish("get_conexion_folder", [folder_name |-> folder_name], [w EXCEPT !.ret = NoRet])
    /\ UNCHANGED <<ctx, list_conexion>>

SM_get_email_user(profesional_id) ==
    /\ Finish("get_email_user", [professional_id |-> profesional_id],
              get_email_user(World(0), profesional_id))
    /\ UNCHANGED <<ctx, list_conexion, folder_conexion>>

SM_get_info_list(list_sharepoint, filters) ==
    /\ Finish("get_info_list", [list_name |-> list_sharepoint, filters |-> filters],
              IF list_sharepoint \in DOMAIN list_conexion
              THEN get_info_list(World(0), list_conexion[list_sharepoint], filters)
              ELSE KeyError(World(0)))
    /\ UNCHANGED <<ctx, list_conexion, folder_conexion>>

SM_get_info_folders(folder_name) ==
    /\ Finish("get_info_folders", [folder_name |-> folder_name],
              IF folder_name \in DOMAIN folder_conexion
              THEN get_info_folders(World(0), folder_conexion[folder_name])
              ELSE KeyError(World(0)))
    /\ UNCHANGED <<ctx, list_conexion, folder_conexion>>

SM_get_info_files(folder_name) ==
    /\ Finish("get_info_files", [folder_name |-> folder_name],
              IF folder_name \in DOMAIN folder_conexion
              THEN get_info_files(World(0), folder_conexion[folder_name])
              ELSE KeyError(World(0)))
    /\ UNCHANGED <<ctx, list_conexion, folder_conexion>>

SM_update_list(list_name, id_item, update_info) ==
    /\ Finish("update_list",
              [list_name |-> list_name, id_item |-> id_item, update_info |-> update_info],
              IF list_name \in DOMAIN list_conexion
              THEN update_list(World(0), list_conexion[list_name], id_item, update_info)
              ELSE KeyError(World(0)))
    /\ UNCHANGED <<ctx, list_conexion, folder_conexion>>

SM_add_new_item(list_name, information, attachment) ==
    /\ list_name \in DOMAIN lists => lists[list_name].nextId <= MaxItems
    /\ ~attachment.none => FsPossible(platform, attachment.path, attachment.fs)
    /\ Finish("add_new_item",
              [list_name |-> list_name, information |-> information, attachment |-> attachment],
              IF list_name \in DOMAIN list_conexion
              THEN add_new_item(World(0), list_conexion[list_name], information, attachment)
              ELSE KeyError(World(0)))
    /\ UNCHANGED <<ctx, list_conexion, folder_conexion>>

SM_create_folder(relative_path, folder_name) ==
    /\ Finish("create_folder", [relative_path |-> relative_path, folder_name |-> folder_name],
              create_folder(World(0), relative_path, folder_name))
    /\ UNCHANGED <<ctx, list_conexion, folder_conexion>>

SM_is_sharepoint_folder(relative_path, folder_name) ==
    /\ Finish("is_sharepoint_folder",
              [relative_path |-> relative_path, folder_name |-> folder_name],
              is_sharepoint_folder(World(0), relative_path, folder_name))
    /\ UNCHANGED <<ctx, list_conexion, folder_conexion>>

SM_upload_file_sharepoint(relative_path, file_upload, file_name) ==
    /\ file_upload.kind = "str" => FsPossible(platform, file_upload.path, file_upload.fs)
    /\ Finish("upload_file_sharepoint",
              [relative_path |-> relative_path, file_upload |-> file_upload,
               file_name |-> file_name],
              upload_file_sharepoint(World(0), relative_path, file_upload, file_name))
    /\ UNCHANGED <<ctx, list_conexion, folder_conexion>>

SM_create_list(list_name) ==
    /\ Finish("create_list", [list_name |-> list_name], create_list(World(0), list_name))
    /\ UNCHANGED <<ctx, list_conexion, folder_conexion>>

SM_delete_item(item) ==
    /\ Finish("delete_item", [item |-> item], delete_item_list(World(0), item))
    /\ UNCHANGED <<ctx, list_conexion, folder_conexion>>

\* Round trip number failAt of the call fails (0: none does).
SM_delete_folder_with_contents(relative_path, folder_name, failAt) ==
    LET full_path == JoinPath(relative_path, folder_name) IN
    /\ Finish("delete_folder_with_contents",
              [relative_path |-> relative_path, folder_name |-> folder_name,
               failAt |-> failAt],
              delete_folder_with_contents(World(failAt), full_path))
    /\ UNCHANGED <<ctx, list_conexion, folder_conexion>>

\* extract_attachment_files of the functional layer, called with the context.
FL_extract_attachment_files(item) ==
    /\ Finish("extract_attachment_files", [item |-> item],
              extract_attachment_files(World(0), item))
    /\ UNCHANGED <<ctx, list_conexion, folder_conexion>>

\* SharepointManagement(username, password, url): the state __init__ leaves,
\* and then get_conexion_list / get_conexion_folder for the names given.
Started(l, u, fo, fi, token, list_names, folder_names) ==
    LET w == get_connection_sharepoint(WorldOf(l, u, fo, fi, "unset", 0), token)
        c == IF w.err = NoErr THEN w.ret.v ELSE "unset"
        w0 == [w EXCEPT !.ctx = c]
    IN
    /\ platform \in Platforms
    /\ lists = l
    /\ users = u
    /\ folders = fo
    /\ files = fi
    /\ ctx = c
    /\ list_conexion = IF c = "ok"
                       THEN [n \in list_names |-> Made(get_connection_list(w0, n).ret, 0)]
                       ELSE EmptyMap
    /\ folder_conexion = IF c = "ok"
                         THEN [n \in folder_names |-> Made(get_connection_folder(w0, n).ret, 0)]
                         ELSE EmptyMap
    /\ queues = QueuesOf(w)
    /\ last = [op |-> "__init__", args |-> [token |-> token], ret |-> NoRet, err |-> w.err,
               log |-> w.log, pending |-> Unsent(w), rt |-> w.rt,
               before |-> [lists |-> l, folders |-> fo, files |-> fi],
               trace |-> <<>>]
    /\ calls = 0

Constructed(l, u, fo, fi, token) == Started(l, u, fo, fi, token, {}, {})

-----------------------------------------------------------------------------
(* The whole program: a manager over a small site, every method callable.  *)

ListNames == {"Requests", "Tasks"}

\* A mapping from its columns to values, as a Python dict.
Dict2(c1, v1, c2, v2) == [x \in {c1, c2} |-> IF x = c1 THEN v1 ELSE v2]

\* The item that the "Requests" list of the site holds.
Item3(id, title, status) ==
    [x \in {"Id", "Title", "Status"} |->
        CASE x = "Id" -> IntV(id) [] x = "Title" -> title [] OTHER -> status]

SiteLists ==
    [n \in {"Requests"} |->
        [items |-> <<Item3(1, StrV("A"), StrV("Open"))>>, nextId |-> 2,
         attachments |-> {[id |-> "1", name |-> <<"a">>, data |-> "x"]}]]

InfoInputs == {Dict2("Title", StrV("B"), "Status", IntV(1))}

FilterInputs == {NoFilters,
                 Filters(<<Information("Status", "Open")>>),
                 Filters(<<Information("Status", "1")>>)}

UpdateInputs == {<<Information("Status", "Closed")>>,
                 <<Information("Status", "Closed"), Information("Title", "C")>>}

IdInputs == {IntV(n) : n \in 1..MaxItems}

\* The names of the folders of the site: a chain of "docs" folders, each with
\* a "Docs" beside it.
ChainNames == {"docs", "Docs"}
NameInputs == ChainNames \cup {"doc"}

\* A file name of n characters.
FileName(n) == [i \in 1..n |-> "a"]

File(dir, n) == [dir |-> dir, name |-> FileName(n), data |-> "x"]

SiteUsers == <<Dict2("Id", IntV(1), "UserPrincipalName", StrV("ana@anla.gov.co")),
               Dict2("Id", IntV(2), "UserPrincipalName", StrV("luis@anla.gov.co"))>>

SiteFolders == {<<>>, <<"docs">>, <<"docs", "docs">>, <<"docs", "Docs">>}
SiteFiles == {File(<<"docs">>, 1), File(<<"docs", "docs">>, 1)}

PathInputs == {<<>>, <<"docs">>}

UploadInputs == {PathSource(<<"C", ":", "\\", "a">>, "file", "y"),
                 PathSource(<<"a">>, "missing", ""),
                 BytesSource("y"), OtherSource}

NoAttachment == [none |-> TRUE, path |-> <<>>, fs |-> "none", data |-> ""]
Attachment(path, fs, data) == [none |-> FALSE, path |-> path, fs |-> fs, data |-> data]

AttachmentInputs == {NoAttachment,
                     Attachment(<<"t", "\\", "a">>, "file", "y"),
                     Attachment(<<"a">>, "dir", "")}

Init ==
    \E token \in BOOLEAN : Constructed(SiteLists, SiteUsers, SiteFolders, SiteFiles, token)

\* The contexts that an item given to delete_item_list may come from: the
\* last one made, or the one before it.
ItemContexts == {c \in 0..Epoch : c >= Epoch - 1}

\* Round trips of a call that may be the one to fail (0: none fails).
FailInputs == 0..MaxDepth

Ready == calls < MaxCalls

Next ==
    \/ \E token \in BOOLEAN : Ready /\ SM_get_conexion_sharepoint(token)
    \/ \E n \in ListNames : Ready /\ SM_get_conexion_list(n)
    \/ \E p \in PathInputs : Ready /\ SM_get_conexion_folder(p)
    \/ \E id \in IdInputs : Ready /\ SM_get_email_user(id)
    \/ \E n \in ListNames, f \in FilterInputs : Ready /\ SM_get_info_list(n, f)
    \/ \E p \in PathInputs : Ready /\ SM_get_info_folders(p)
    \/ \E p \in PathInputs : Ready /\ SM_get_info_files(p)
    \/ \E n \in ListNames, id \in IdInputs, u \in UpdateInputs :
            Ready /\ SM_update_list(n, id, u)
    \/ \E n \in ListNames, i \in InfoInputs, a \in AttachmentInputs :
            Ready /\ SM_add_new_item(n, i, a)
    \/ \E p \in PathInputs, n \in NameInputs : Ready /\ SM_create_folder(p, n)
    \/ \E p \in PathInputs, n \in NameInputs : Ready /\ SM_is_sharepoint_folder(p, n)
    \/ \E u \in UploadInputs, n \in {NoName, Name(<<"b">>)} :
            Ready /\ SM_upload_file_sharepoint(<<"docs">>, u, n)
    \/ Ready /\ SM_create_list("Tasks")
    \/ \E n \in ListNames, id \in IdInputs :
            \E c \in ItemContexts : Ready /\ SM_delete_item([list |-> n, id |-> id, ctx |-> c])
    \/ \E p \in PathInputs, n \in {"docs", "doc"}, k \in {0, 2} :
            Ready /\ SM_delete_folder_with_contents(p, n, k)
    \/ \E n \in ListNames, id \in IdInputs :
            Ready /\ FL_extract_attachment_files([list |-> n, id |-> id])

Spec == Init /\ [][Next]_vars

-----------------------------------------------------------------------------
(* One call of get_info_list or update_list on a list whose items are      *)
(* drawn from a bounded set, through a manager that holds its handle.      *)

\* Sequences of at most n elements of S.
SeqsUpTo(S, n) == UNION {[1..k -> S] : k \in 0..n}

\* The items a list may hold: a Title, and a Status that is a string (in
\* either case), a number, null or not a property at all.
StatusValues == {StrV("Open"), StrV("open"), IntV(1), NoneV}

ItemOf(id, status) ==
    IF status.present THEN Item3(id, StrV("A"), status.v)
    ELSE Dict2("Id", IntV(id), "Title", StrV("A"))

StatusChoices == {[present |-> TRUE, v |-> v] : v \in StatusValues}
                 \cup {[present |-> FALSE, v |-> NoneV]}

\* Lists of at most MaxItems items, the item at position i having Id i.
ItemLists ==
    {[i \in 1..Len(c) |-> ItemOf(i, c[i])] : c \in SeqsUpTo(StatusChoices, MaxItems)}

FilterUniverse ==
    {NoFilters} \cup
    {Filters(fs) : fs \in SeqsUpTo({Information(c, v) :
                                      c \in {"Status", "Title", "Id"},
                                      v \in {"Open", "open", "1", "A", "None"}}, 2)}

UpdateUniverse ==
    SeqsUpTo({Information(c, v) : c \in {"Status", "Title", "Note"},
                                  v \in {"Closed", "Open"}}, 2)

IdUniverse == {IntV(n) : n \in 1..(MaxItems + 1)} \cup {StrV("1")}

InitItems ==
    \E its \in ItemLists :
        Started([n \in {"Requests"} |->
                    [items |-> its, nextId |-> Len(its) + 1, attachments |-> {}]],
                <<>>, {<<>>}, {}, TRUE, {"Requests"}, {})

NextItems ==
    \/ \E f \in FilterUniverse : calls = 0 /\ SM_get_info_list("Requests", f)
    \/ \E id \in IdUniverse, u \in UpdateUniverse :
            calls = 0 /\ SM_update_list("Requests", id, u)

SpecItems == InitItems /\ [][NextItems]_vars

\* The items of "Requests" before and after the last call.
ItemsBefore == last.before.lists["Requests"].items
ItemsAfter == lists["Requests"].items

\* A filter matches an item: the column is a property of the item and
\* str(item.properties[column]) == value.
Matches(item, f) == f.column \in DOMAIN item /\ str(item[f.column]) = f.value

\* The items of a sequence that every filter matches, in order.
Selected(items, fs) ==
    LET Keep(item) == \A j \in 1..Len(fs) : Matches(item, fs[j])
    IN SelectSeq(items, Keep)

\* The filters reach a column that some item lacks: the item matches every
\* filter before it.
ReachesMissing(items, fs) ==
    \E i \in 1..Len(items), j \in 1..Len(fs) :
        /\ fs[j].column \notin DOMAIN items[i]
        /\ \A k \in 1..(j - 1) : Matches(items[i], fs[k])

\* The last get_info_list returned the items that every filter matches, or
\* all the items when no filters were given.
ReturnsSelected ==
    /\ last.err = NoErr
    /\ last.ret.kind = "items"
    /\ last.ret.v = IF last.args.filters.none THEN ItemsBefore
                    ELSE Selected(ItemsBefore, last.args.filters.fs)

\* C1 as stated: for every item collection and every filter list,
\* get_info_list returns exactly the items for which every filter has
\* str(item.properties[column]) equal to its value, in retrieval order, and
\* all the items unchanged when no filters are given.
C1_FilterEvery == last.op = "get_info_list" => ReturnsSelected

\* C1: get_info_list returns exactly the items for which every filter has
\* str(item.properties[column]) equal to its value (exact, case-sensitive), in
\* retrieval order, and all the items unchanged when no filters are given,
\* unless the filters reach a column that is no property of an item: then it
\* raises KeyError and returns nothing.  The remote list is never changed.
C1_FilterExact ==
    last.op = "get_info_list" =>
        /\ IF ReachesMissing(ItemsBefore, last.args.filters.fs)
           THEN last.err = Err("KeyError", <<>>) /\ last.ret = NoRet
           ELSE ReturnsSelected
        /\ ItemsAfter = ItemsBefore

\* Two filters keep one of two items whose Status differs only in case.
C1_Witness ==
    /\ last.op = "get_info_list"
    /\ last.err = NoErr
    /\ Len(last.args.filters.fs) = 2
    /\ Len(ItemsBefore) = 2
    /\ "Status" \in DOMAIN ItemsBefore[1] /\ ItemsBefore[1]["Status"] = StrV("open")
    /\ "Status" \in DOMAIN ItemsBefore[2] /\ ItemsBefore[2]["Status"] = StrV("Open")
    /\ last.args.filters.fs[2] = Information("Status", "Open")
    /\ last.ret.v = <<ItemsBefore[2]>>

\* A filter on Status has met an item with no Status, after an item that it
\* does not match: KeyError.
C1_MissingColumn ==
    /\ last.op = "get_info_list"
    /\ Len(ItemsBefore) = 2
    /\ "Status" \in DOMAIN ItemsBefore[1]
    /\ "Status" \notin DOMAIN ItemsBefore[2]
    /\ last.args.filters.fs = <<Information("Status", "1")>>
    /\ last.err = Err("KeyError", <<>>)

\* The columns that an update sequence names.
NamedColumns(update_info) == {update_info[i].column : i \in 1..Len(update_info)}

\* The value that an update sequence gives a column: that of the last
\* Information naming it.
GivenValue(update_info, c) ==
    LET i == CHOOSE k \in 1..Len(update_info) :
                /\ update_info[k].column = c
                /\ \A m \in (k + 1)..Len(update_info) : update_info[m].column # c
    IN StrV(update_info[i].value)

IdPresent(items, id) == \E i \in 1..Len(items) : items[i]["Id"] = id

\* C4: update_list on a present identifier sets exactly the named columns of
\* that item to the given values, and changes no other column and no other item.
C4_UpdateFrame ==
    (last.op = "update_list" /\ IdPresent(ItemsBefore, last.args.id_item)) =>
        /\ last.err = NoErr
        /\ DOMAIN lists = DOMAIN last.before.lists
        /\ Len(ItemsAfter) = Len(ItemsBefore)
        /\ \A i \in 1..Len(ItemsBefore) :
              IF ItemsBefore[i]["Id"] = last.args.id_item
              THEN /\ DOMAIN ItemsAfter[i] =
                        DOMAIN ItemsBefore[i] \cup NamedColumns(last.args.update_info)
                   /\ \A c \in DOMAIN ItemsAfter[i] :
                        ItemsAfter[i][c] =
                            IF c \in NamedColumns(last.args.update_info)
                            THEN GivenValue(last.args.update_info, c)
                            ELSE ItemsBefore[i][c]
              ELSE ItemsAfter[i] = ItemsBefore[i]

\* Two columns of the second of two items are set, one of them new to it.
C4_Witness ==
    /\ last.op = "update_list"
    /\ last.args.id_item = IntV(2)
    /\ Len(ItemsBefore) = 2
    /\ NamedColumns(last.args.update_info) = {"Status", "Title"}
    /\ "Status" \notin DOMAIN ItemsBefore[2]
    /\ ItemsAfter[2]["Status"] = StrV("Closed")
    /\ ItemsAfter[2]["Title"] = StrV("Open")
    /\ ItemsAfter[1] = ItemsBefore[1]

\* The queries that change the site.
Mutating == {"add_list", "add_item", "add_attachment", "update_item", "delete_item",
             "add_folder", "upload_file", "delete_file", "delete_folder"}

\* The log stages or flushes a query that changes the site.
LogMutates(log) ==
    \E i \in 1..Len(log) :
        \E q \in Mutating : log[i].e = q \/ log[i].e = "flush_" \o q

\* C5: update_list on an identifier that no item of the list has raises
\* SharepointErrors, its message naming the identifier, stages and flushes no
\* change, and leaves the site as it was.
C5_AbsentRaises ==
    (last.op = "update_list" /\ ~IdPresent(ItemsBefore, last.args.id_item)) =>
        /\ last.err.type = "SharepointErrors"
        /\ \E i \in 1..Len(last.err.msg) : last.err.msg[i] = str(last.args.id_item)
        /\ ~LogMutates(last.log)
        /\ lists = last.before.lists
        /\ folders = last.before.folders
        /\ files = last.before.files

\* The list holds items, none with the identifier, and updates were asked for.
C5_Witness ==
    /\ last.op = "update_list"
    /\ Len(ItemsBefore) = 2
    /\ last.args.id_item = IntV(3)
    /\ Len(last.args.update_info) = 2
    /\ last.err.type = "SharepointErrors"
    /\ last.err.msg[2] = "3"

-----------------------------------------------------------------------------
(* One call of delete_folder_with_contents or is_sharepoint_folder on a    *)
(* folder tree drawn from a bounded set.                                   *)

\* n folders "docs", one inside the other.
Chain(n) == [i \in 1..n |-> "docs"]

\* The folder "Docs" beside the chain, inside Chain(n).
Side(n) == Append(Chain(n), "Docs")

\* The trees: a chain of d folders, the i-th holding cf[i] files, and empty
\* "Docs" folders inside the chain folders of sides.
TreeFolders(d, sides) == {Chain(i) : i \in 0..d} \cup {Side(i) : i \in sides}

TreeFiles(d, cf) == UNION {{File(Chain(i), k) : k \in 1..cf[i]} : i \in 1..d}

InitTree ==
    \E d \in 0..MaxDepth :
      \E sides \in SUBSET (0..(MaxDepth - 1)), cf \in [1..d -> 0..MaxFiles] :
            /\ \A i \in sides : i <= d
            /\ Started(EmptyMap, <<>>, TreeFolders(d, sides), TreeFiles(d, cf),
                       TRUE, {}, {})

ParentInputs == {Chain(i) : i \in 0..MaxDepth}
TreeNameInputs == {"docs", "Docs", "doc", "DOCS"}

NextTree ==
    \/ \E p \in ParentInputs, n \in NameInputs, k \in FailInputs :
            calls = 0 /\ SM_delete_folder_with_contents(p, n, k)
    \/ \E p \in ParentInputs, n \in TreeNameInputs :
            calls = 0 /\ SM_is_sharepoint_folder(p, n)

SpecTree == InitTree /\ [][NextTree]_vars

\* Path p is q or inside q.
Under(p, q) == Len(p) >= Len(q) /\ SubSeq(p, 1, Len(q)) = q

\* The folder that the last delete_folder_with_contents was called for.
FullPath == JoinPath(last.args.relative_path, last.args.folder_name)

\* C2: when delete_folder_with_contents(p) of an existing folder completes,
\* neither p nor any folder or file that was under p at the start remains.
C2_TreeGone ==
    (last.op = "delete_folder_with_contents" /\ last.err = NoErr) =>
        /\ FullPath \in last.before.folders
        /\ \A q \in last.before.folders : Under(q, FullPath) => q \notin folders
        /\ \A f \in last.before.files :
              Under(f.dir, FullPath) =>
                  ~\E g \in files : g.dir = f.dir /\ g.name = f.name

\* A completed call on a folder holding two files and two subfolders, one of
\* them holding a file, a subfolder with a file and an empty subfolder.
C2_Witness ==
    /\ last.op = "delete_folder_with_contents"
    /\ last.err = NoErr
    /\ FullPath = Chain(1)
    /\ {Chain(3), Side(1), Side(2)} \subseteq last.before.folders
    /\ Cardinality(FilesIn(last.before.files, Chain(1))) = 2
    /\ FilesIn(last.before.files, Chain(2)) # {}
    /\ FilesIn(last.before.files, Chain(3)) # {}
    /\ folders = {<<>>}
    /\ files = {}

\* C3: whenever a folder's own delete reaches the site, the folder holds no
\* file and no subfolder.
C3_EmptyWhenDeleted ==
    last.op = "delete_folder_with_contents" =>
        \A i \in 1..Len(last.log) :
            last.log[i].e = "flush_delete_folder" => last.log[i].n = 0

\* Files and two subfolders were deleted, then the folder that held them.
C3_Witness ==
    /\ last.op = "delete_folder_with_contents"
    /\ FullPath = Chain(1)
    /\ \E i, j, k, m \in 1..Len(last.log) :
          /\ i < m /\ j < m /\ k < m
          /\ last.log[i].e = "flush_delete_file" /\ last.log[i].key.path = Chain(1)
          /\ last.log[j].e = "flush_delete_folder" /\ last.log[j].key.path = Chain(2)
          /\ last.log[k].e = "flush_delete_folder" /\ last.log[k].key.path = Side(1)
          /\ last.log[m].e = "flush_delete_folder" /\ last.log[m].key.path = Chain(1)

\* C7: is_sharepoint_folder is true exactly when the name is the Name of a
\* direct child folder of the parent path.
C7_ExactChild ==
    (last.op = "is_sharepoint_folder"
     /\ last.args.relative_path \in last.before.folders) =>
        /\ last.err = NoErr
        /\ last.ret.v =
             (JoinPath(last.args.relative_path, last.args.folder_name)
                \in last.before.folders)

\* "Docs" is asked for where "docs" is a child and "Docs" only a grandchild.
C7_Witness ==
    /\ last.op = "is_sharepoint_folder"
    /\ last.args.relative_path = <<>>
    /\ last.args.folder_name = "Docs"
    /\ Chain(1) \in folders
    /\ Side(1) \in folders
    /\ Side(0) \notin folders
    /\ last.err = NoErr
    /\ last.ret.v = FALSE

-----------------------------------------------------------------------------
(* One call of get_email_user on site users drawn from a bounded set.      *)

UserOf(id, upn) == Dict2("Id", IntV(id), "UserPrincipalName", StrV(upn))

UserUniverse == {UserOf(id, upn) : id \in {1, 2}, upn \in {"ana@anla.gov.co", "luis@anla.gov.co"}}

InitUsers ==
    \E us \in SeqsUpTo(UserUniverse, MaxUsers) :
        Started(EmptyMap, us, {<<>>}, {}, TRUE, {}, {})

NextUsers ==
    \E id \in {IntV(1), IntV(2), IntV(3), StrV("1")} : calls = 0 /\ SM_get_email_user(id)

SpecUsers == InitUsers /\ [][NextUsers]_vars

\* The positions of the users whose Id equals the query.
MatchingUsers == {i \in 1..Len(users) : users[i]["Id"] = last.args.professional_id}

\* The least number of a non-empty set of numbers.
Least(S) == CHOOSE i \in S : \A j \in S : i <= j

\* C6: get_email_user returns the principal name of the first user, in
\* retrieval order, whose Id equals the query, and None when there is none.
C6_FirstMatch ==
    last.op = "get_email_user" =>
        /\ last.err = NoErr
        /\ last.ret.v = IF MatchingUsers = {} THEN NoneV
                        ELSE users[Least(MatchingUsers)]["UserPrincipalName"]

\* Two users share the Id asked for, under different names, after another user.
C6_Witness ==
    /\ last.op = "get_email_user"
    /\ MatchingUsers = {2, 3}
    /\ users[2]["UserPrincipalName"] # users[3]["UserPrincipalName"]
    /\ last.ret.v = users[2]["UserPrincipalName"]

-----------------------------------------------------------------------------
(* One call of upload_file_sharepoint with a source drawn from bounded sets.*)

Chars == {"a", ".", "/", "\\"}

\* "C:\docs\report.pdf" and "report.pdf"
ExamplePath == <<"C", ":", "\\", "d", "o", "c", "s", "\\",
                 "r", "e", "p", "o", "r", "t", ".", "p", "d", "f">>
ExampleName == <<"r", "e", "p", "o", "r", "t", ".", "p", "d", "f">>

LocalPaths == SeqsUpTo(Chars, MaxPathLen) \cup {ExamplePath}

SourceUniverse ==
    {PathSource(path, fs, IF fs = "file" THEN "y" ELSE "") :
        path \in LocalPaths, fs \in FsStates}
    \cup {BytesSource("y"), OtherSource}

TargetNames == {NoName, Name(<<"b">>)}

InitUpload == Started(EmptyMap, <<>>, {<<>>, <<"docs">>}, {File(<<"docs">>, 1)}, TRUE, {}, {})

NextUpload ==
    \E p \in {<<"docs">>, <<"doc">>}, u \in SourceUniverse, n \in TargetNames :
        calls = 0 /\ SM_upload_file_sharepoint(p, u, n)

SpecUpload == InitUpload /\ [][NextUpload]_vars

\* The part of a path after its last backslash: the whole path when it has none.
AfterLastBackslash(path) ==
    LET B == {i \in 1..Len(path) : path[i] = "\\"}
        k == IF B = {} THEN 0 ELSE CHOOSE i \in B : \A j \in B : j <= i
    IN SubSeq(path, k + 1, Len(path))

\* The name that the last upload is to use.
UploadName ==
    IF last.args.file_name.none THEN AfterLastBackslash(last.args.file_upload.path)
    ELSE last.args.file_name.v

\* C8: a path source with no target name is uploaded under the last
\* backslash-separated segment of the path; a target name given is used as it is.
C8_DerivedName ==
    (/\ last.op = "upload_file_sharepoint"
     /\ last.args.file_upload.kind = "str"
     /\ Readable(last.args.file_upload)
     /\ last.args.relative_path \in last.before.folders) =>
        /\ last.err = NoErr
        /\ [dir |-> last.args.relative_path, name |-> UploadName,
            data |-> last.args.file_upload.data] \in files
        /\ \A f \in files :
              f \in last.before.files \/
              (f.dir = last.args.relative_path /\ f.name = UploadName)

\* "C:\docs\report.pdf" with no target name is on the site as "report.pdf".
C8_Witness ==
    /\ last.op = "upload_file_sharepoint"
    /\ last.args.file_upload.kind = "str"
    /\ last.args.file_upload.path = ExamplePath
    /\ last.args.file_name.none
    /\ last.err = NoErr
    /\ [dir |-> <<"docs">>, name |-> ExampleName, data |-> "y"] \in files

-----------------------------------------------------------------------------
(* A manager on a site with no list, and the calls of the "Requests"       *)
(* scenario in any order.                                                   *)

OpenItem == Dict2("Title", StrV("A"), "Status", StrV("Open"))
OpenFilter == Filters(<<Information("Status", "Open")>>)
CloseUpdate == <<Information("Status", "Closed")>>

InitE2E == Constructed(EmptyMap, <<>>, {<<>>}, {}, TRUE)

Going == calls < MaxSteps

NextE2E ==
    \/ Going /\ SM_get_conexion_list("Requests")
    \/ Going /\ SM_create_list("Requests")
    \/ Going /\ SM_add_new_item("Requests", OpenItem, NoAttachment)
    \/ Going /\ SM_get_info_list("Requests", OpenFilter)
    \/ \E id \in IdInputs : Going /\ SM_update_list("Requests", id, CloseUpdate)

SpecE2E == InitE2E /\ [][NextE2E]_vars

\* The calls of the scenario, as the trace records them.
CreateCall == [op |-> "create_list", args |-> [list_name |-> "Requests"]]
AddCall ==
    [op |-> "add_new_item",
     args |-> [list_name |-> "Requests", information |-> OpenItem,
               attachment |-> NoAttachment]]
GetCall == [op |-> "get_info_list", args |-> [list_name |-> "Requests", filters |-> OpenFilter]]
UpdateCall ==
    [op |-> "update_list",
     args |-> [list_name |-> "Requests", id_item |-> IntV(1), update_info |-> CloseUpdate]]

IsConnect(c) == c.op = "get_conexion_list"

\* The calls made so far, without their outcome, the get_conexion_list calls
\* left out or not.
Calls(t) == [i \in 1..Len(t) |-> [op |-> t[i].op, args |-> t[i].args]]
Core(t) == LET Other(c) == ~IsConnect(c) IN Calls(SelectSeq(t, Other))

\* get_conexion_list("Requests") was called before the first add_new_item.
ConnectedBeforeAdd ==
    \E i, j \in 1..Len(last.trace) :
        /\ i < j
        /\ IsConnect(last.trace[i])
        /\ last.trace[i].args.list_name = "Requests"
        /\ last.trace[j].op = "add_new_item"
        /\ \A k \in 1..(j - 1) : last.trace[k].op # "add_new_item"

\* The last call returned exactly one item, with Title A and Status Open.
ReturnedThatItem ==
    /\ last.err = NoErr
    /\ last.ret.kind = "items"
    /\ Len(last.ret.v) = 1
    /\ last.ret.v[1]["Title"] = StrV("A")
    /\ last.ret.v[1]["Status"] = StrV("Open")

ReturnedNothing == last.err = NoErr /\ last.ret.kind = "items" /\ last.ret.v = <<>>

\* C9 as stated: the scenario's calls on a new manager, nothing else.
C9_Scenario ==
    /\ Calls(last.trace) = <<CreateCall, AddCall, GetCall>> => ReturnedThatItem
    /\ Calls(last.trace) = <<CreateCall, AddCall, GetCall, UpdateCall, GetCall>>
            => ReturnedNothing

\* C9: on a manager that got its handle with get_conexion_list("Requests")
\* before the add-item, create-list, add-item {Title: A, Status: Open} and
\* get-list-items filtered on Status = Open return exactly that item, and after
\* update-item sets its Status to Closed the same filter returns nothing.
C9_ScenarioConnected ==
    (ConnectedBeforeAdd /\ last.op = "get_info_list") =>
        /\ Core(last.trace) = <<CreateCall, AddCall, GetCall>> => ReturnedThatItem
        /\ Core(last.trace) = <<CreateCall, AddCall, GetCall, UpdateCall, GetCall>>
                => ReturnedNothing

\* The whole scenario has run, the handle obtained after create-list, and
\* the item that the first filter returned is on the site with Status Closed.
C9_Witness ==
    /\ ConnectedBeforeAdd
    /\ Core(last.trace) = <<CreateCall, AddCall, GetCall, UpdateCall, GetCall>>
    /\ IsConnect(last.trace[2])
    /\ ReturnedNothing
    /\ Len(lists["Requests"].items) = 1
    /\ lists["Requests"].items[1]["Status"] = StrV("Closed")

-----------------------------------------------------------------------------
(* Loads and round trips in the log of a call.                              *)

\* Event i of the last call's log reads an object the function loaded at j
\* and a round trip between the two has been made.
LoadedAndExecuted(i) ==
    \E j \in 1..(i - 1) :
        /\ last.log[j].e = "load"
        /\ last.log[j].key = last.log[i].key
        /\ \E m \in (j + 1)..(i - 1) : last.log[m].e = "execute"

\* C10: in every call, an object that is iterated, inspected or returned was
\* loaded and a round trip was made after its load, every load is followed by
\* a round trip, and a call that returns leaves no load staged.
C10_LoadThenExecute ==
    /\ \A i \in 1..Len(last.log) : last.log[i].e = "use" => LoadedAndExecuted(i)
    /\ \A j \in 1..Len(last.log) :
          last.log[j].e = "load" =>
              \E m \in (j + 1)..Len(last.log) : last.log[m].e = "execute"
    /\ last.err = NoErr =>
          \A k \in 1..Len(last.pending) : last.pending[k].q # "load"

\* get_info_files has returned the files of a folder that holds some: its
\* log is load, round trip, materialisation, use.
C10_Witness ==
    /\ last.op = "get_info_files"
    /\ last.err = NoErr
    /\ last.ret.v # <<>>
    /\ Len(last.log) = 4
    /\ last.log[1].e = "load"
    /\ last.log[2].e = "execute"
    /\ last.log[4].e = "use"
    /\ last.log[4].key = last.log[1].key

-----------------------------------------------------------------------------
(* The two caches of the manager over a session.                            *)

ListOps == {"get_conexion_list", "get_info_list", "update_list", "add_new_item"}
FolderOps == {"get_conexion_folder", "get_info_folders", "get_info_files"}

\* The step is a call of one of ops that names n.
Requests(ops, field, n) ==
    /\ calls' = calls + 1
    /\ last'.op \in ops
    /\ last'.args[field] = n

\* The step is a get_conexion call for n that raised nothing.
Connects(op, field, n) == Requests({op}, field, n) /\ last'.err = NoErr

\* Cache c gets its entry for n on the first call that names n and keeps the
\* handle from then on.
CachedOnce(c, cNext, ops, field, n) ==
    IF n \in DOMAIN c THEN n \in DOMAIN cNext /\ cNext[n] = c[n]
    ELSE n \in DOMAIN cNext <=> Requests(ops, field, n)

\* C11 as stated, for a manager that holds a connection: an entry appears on
\* the first operation that requests its name, and is never replaced,
\* refreshed or removed.
C11_CachedOnFirstRequest ==
    [][ctx = "ok" =>
       /\ \A n \in ListNames :
            CachedOnce(list_conexion, list_conexion', ListOps, "list_name", n)
       /\ \A p \in PathInputs :
            CachedOnce(folder_conexion, folder_conexion', FolderOps, "folder_name", p)]_vars

\* Cache c changes at n exactly by a get_conexion call for n that raises
\* nothing: it then holds a newly made handle for n, made from the context
\* that the manager holds; no entry is removed.
CachedByConnect(c, cNext, op, field, n) ==
    IF Connects(op, field, n)
    THEN /\ n \in DOMAIN cNext
         /\ cNext[n][IF field = "list_name" THEN "title" ELSE "path"] = n
         /\ cNext[n].ctx = Epoch /\ ctx = "ok"
         /\ \A k \in DOMAIN c : cNext[n].obj # c[k].obj
    ELSE /\ n \in DOMAIN cNext <=> n \in DOMAIN c
         /\ n \in DOMAIN c => cNext[n] = c[n]

\* A call of ops other than get_conexion that names an n with no entry in c
\* raises KeyError.
UncachedRaises(c, ops, op, field, n) ==
    (Requests(ops \ {op}, field, n) /\ n \notin DOMAIN c) => last'.err = Err("KeyError", <<>>)

\* C11: the cache entry for a list name (a folder name) is made only by a
\* get_conexion_list (get_conexion_folder) call for that name that raises
\* nothing, which stores a newly made handle for the name, made from the
\* manager's context of that moment, also when an entry exists; no other
\* operation, get_conexion_sharepoint included, adds, changes or removes an
\* entry, and one that uses a name with no entry raises KeyError.
C11_CachedByConnect ==
    [][/\ \A n \in ListNames :
            /\ CachedByConnect(list_conexion, list_conexion', "get_conexion_list",
                               "list_name", n)
            /\ UncachedRaises(list_conexion, ListOps, "get_conexion_list", "list_name", n)
       /\ \A p \in PathInputs :
            /\ CachedByConnect(folder_conexion, folder_conexion', "get_conexion_folder",
                               "folder_name", p)
            /\ UncachedRaises(folder_conexion, FolderOps, "get_conexion_folder",
                              "folder_name", p)]_vars

\* get_conexion_list has been called twice for "Requests": the cache holds the
\* handle that the second call made.
C11_Witness ==
    /\ Len(last.trace) = 2
    /\ \A i \in 1..2 : /\ last.trace[i].op = "get_conexion_list"
                         /\ last.trace[i].args.list_name = "Requests"
                         /\ last.trace[i].err = NoErr
    /\ list_conexion["Requests"].obj = 2

-----------------------------------------------------------------------------
(* A manager whose token acquisition failed.                                *)

\* Every method of the manager on one input each, one call more than in the
\* whole program, so that a connection can be made, used and lost.
InitAuth ==
    \E token \in BOOLEAN : Constructed(SiteLists, SiteUsers, SiteFolders, SiteFiles, token)

Authing == calls < MaxCalls + 1

NextAuth ==
    \/ \E token \in BOOLEAN : Authing /\ SM_get_conexion_sharepoint(token)
    \/ Authing /\ SM_get_conexion_list("Requests")
    \/ Authing /\ SM_get_conexion_folder(<<"docs">>)
    \/ Authing /\ SM_get_email_user(IntV(1))
    \/ Authing /\ SM_get_info_list("Requests", NoFilters)
    \/ Authing /\ SM_get_info_folders(<<"docs">>)
    \/ Authing /\ SM_get_info_files(<<"docs">>)
    \/ Authing /\ SM_update_list("Requests", IntV(1), <<Information("Status", "Closed")>>)
    \/ \E i \in InfoInputs, a \in {NoAttachment, Attachment(<<"a">>, "file", "y")} :
            Authing /\ SM_add_new_item("Requests", i, a)
    \/ Authing /\ SM_create_folder(<<"docs">>, "doc")
    \/ Authing /\ SM_is_sharepoint_folder(<<"docs">>, "docs")
    \/ Authing /\ SM_upload_file_sharepoint(<<"docs">>, BytesSource("y"), Name(<<"b">>))
    \/ Authing /\ SM_create_list("Tasks")
    \/ \E c \in ItemContexts :
            Authing /\ SM_delete_item([list |-> "Requests", id |-> IntV(1), ctx |-> c])
    \/ Authing /\ SM_delete_folder_with_contents(<<"docs">>, "docs", 0)

SpecAuth == InitAuth /\ [][NextAuth]_vars

\* The methods that pass a cached handle on.
CachedHandleOps == (ListOps \cup FolderOps) \ {"get_conexion_list", "get_conexion_folder"}

\* The methods that set the connection handle.
HandleOps == {"__init__", "get_conexion_sharepoint"}

SiteUntouched ==
    /\ lists = last.before.lists
    /\ folders = last.before.folders
    /\ files = last.before.files

\* The acquisition raised nothing and printed, and made no round trip.
ConstructedUnset ==
    /\ last.err = NoErr
    /\ last.rt = 0
    /\ Len(last.log) = 1
    /\ last.log[1].e = "print"

\* The last call named a list or a folder that has no cached handle.
NoCachedHandle ==
    \/ last.op \in ListOps /\ last.args.list_name \notin DOMAIN list_conexion
    \/ last.op \in FolderOps /\ last.args.folder_name \notin DOMAIN folder_conexion

\* C12 as stated: with an unset handle, every operation fails with a
\* null-reference-style error and makes no round trip.
C12_NullReference ==
    ctx = "unset" =>
        IF last.op = "__init__" THEN ConstructedUnset
        ELSE last.err = Err("AttributeError", <<>>) /\ last.rt = 0 /\ SiteUntouched

\* C12: when token acquisition fails, construction raises nothing, prints and
\* leaves the handle unset, and so does a later get_conexion_sharepoint, which
\* sets the handle when a token is granted; while the handle is unset every
\* other operation fails with no round trip and the site untouched, with
\* KeyError when it takes a cached handle that the cache does not hold and
\* with a null-reference-style AttributeError otherwise; a manager constructed
\* unset holds no cached handle until it connects.
C12_UnsetHandleFails ==
    /\ last.op \in HandleOps => (ctx = "unset" <=> ~last.args.token)
    /\ ctx = "unset" =>
        IF last.op \in HandleOps THEN ConstructedUnset /\ SiteUntouched
        ELSE /\ last.err = Err(IF last.op \in CachedHandleOps /\ NoCachedHandle
                               THEN "KeyError" ELSE "AttributeError", <<>>)
             /\ last.rt = 0
             /\ SiteUntouched
    /\ (\A i \in 1..Len(last.trace) : last.trace[i].op # "get_conexion_sharepoint") =>
            (ctx = "unset" => list_conexion = EmptyMap /\ folder_conexion = EmptyMap)

\* On a manager constructed with an unset handle get_conexion_list has failed
\* with AttributeError and get_info_list of the same list with KeyError.
C12_Witness ==
    /\ ctx = "unset"
    /\ Len(last.trace) = 2
    /\ last.trace[1].op = "get_conexion_list"
    /\ last.trace[1].args.list_name = "Requests"
    /\ last.trace[1].err = Err("AttributeError", <<>>)
    /\ last.op = "get_info_list"
    /\ last.args.list_name = "Requests"
    /\ last.err = Err("KeyError", <<>>)
    /\ last.rt = 0

\* A connected manager has cached the handle of "Requests" and then lost its
\* connection in get_conexion_sharepoint: get_info_list of the cached list
\* fails with AttributeError.
C12_StaleHandle ==
    /\ ctx = "unset"
    /\ Len(last.trace) = 3
    /\ last.trace[1].op = "get_conexion_list" /\ last.trace[1].err = NoErr
    /\ last.trace[2].op = "get_conexion_sharepoint" /\ ~last.trace[2].args.token
    /\ last.op = "get_info_list"
    /\ "Requests" \in DOMAIN list_conexion
    /\ last.err = Err("AttributeError", <<>>)
    /\ last.rt = 0

-----------------------------------------------------------------------------
(* Upload sources that are neither a path nor a buffer.                     *)

TypeErrorMessage ==
    <<"El argumento file_upload debe ser una ruta de archivo o un objeto io.BytesIO">>

\* The last call made no round trip and staged nothing.
NothingSent ==
    /\ last.rt = 0
    /\ last.pending = <<>>
    /\ \A i \in 1..Len(last.log) : last.log[i].e \notin {"execute", "upload_file"}

\* C13: on a connected manager, upload_file_sharepoint with a source that is
\* neither a path string nor a buffer raises TypeError before any round trip,
\* with or without a target name, and uploads nothing.
C13_TypeRejected ==
    (/\ last.op = "upload_file_sharepoint"
     /\ last.args.file_upload.kind \notin {"str", "BytesIO"}
     /\ ctx = "ok") =>
        /\ last.err = Err("TypeError", TypeErrorMessage)
        /\ NothingSent
        /\ SiteUntouched

\* Such a source was rejected with a target name given, the folder existing.
C13_Witness ==
    /\ last.op = "upload_file_sharepoint"
    /\ last.args.file_upload = OtherSource
    /\ ~last.args.file_name.none
    /\ last.args.relative_path \in folders
    /\ last.err.type = "TypeError"
    /\ files = last.before.files

-----------------------------------------------------------------------------
(* delete_folder_with_contents with a round trip that fails, and the call  *)
(* made again.                                                              *)

\* The round trips of a call on the largest tree: one may be the one to fail.
FailTrips == 1..(TripsPerFolder * (2 * MaxDepth - 1))

RootInputs == {Chain(0), Chain(1)}

\* The trees of InitTree whose chain folders hold no file or MaxFiles files.
InitFail ==
    \E d \in 0..MaxDepth :
      \E sides \in SUBSET (0..(MaxDepth - 1)), cf \in [1..d -> {0, MaxFiles}] :
            /\ \A i \in sides : i <= d
            /\ Started(EmptyMap, <<>>, TreeFolders(d, sides), TreeFiles(d, cf),
                       TRUE, {}, {})

\* The first call with a failing round trip, then the same call with none.
NextFail ==
    \/ \E p \in RootInputs, k \in FailTrips :
            calls = 0 /\ SM_delete_folder_with_contents(p, "docs", k)
    \/ /\ calls = 1
       /\ SM_delete_folder_with_contents(last.args.relative_path, last.args.folder_name, 0)

SpecFail == InitFail /\ [][NextFail]_vars

\* The last call is a delete_folder_with_contents of a folder that existed,
\* and the round trip chosen to fail was issued.
TripFailed ==
    /\ last.op = "delete_folder_with_contents"
    /\ FullPath \in last.before.folders
    /\ last.args.failAt \in 1..last.rt

\* The folders and the directories of the files whose deletion a round trip
\* of the last call carried out.
FlushedFolders ==
    {last.log[i].key.path : i \in {j \in 1..Len(last.log) : last.log[j].e = "flush_delete_folder"}}
FlushedFileDirs ==
    {last.log[i].key.path : i \in {j \in 1..Len(last.log) : last.log[j].e = "flush_delete_file"}}

ExecuteEvents == {i \in 1..Len(last.log) : last.log[i].e = "execute"}

\* C14: a round trip that fails during delete_folder_with_contents ends the
\* call with that failure: it is the last round trip and the last event, no
\* round trip is made twice, the site is the original one less the objects
\* whose deletions earlier round trips carried out, and the folder of the call
\* still exists.
C14_FailureStops ==
    TripFailed =>
        /\ last.err = Err("RoundTripFailed", <<>>)
        /\ last.rt = last.args.failAt
        /\ last.log[Len(last.log)] =
              [e |-> "execute", key |-> Key("ctx", "", <<>>), n |-> last.args.failAt]
        /\ Cardinality(ExecuteEvents) = last.args.failAt
        /\ folders = last.before.folders \ FlushedFolders
        /\ files = {f \in last.before.files : f.dir \notin FlushedFileDirs}
        /\ FullPath \in folders

\* A round trip failed in a folder two levels below the folder of the call,
\* after files and a folder had been deleted; the folder of the call exists.
C14_Witness ==
    /\ TripFailed
    /\ last.err = Err("RoundTripFailed", <<>>)
    /\ FlushedFolders # {}
    /\ FlushedFileDirs # {}
    /\ \E i \in 1..Len(last.log) :
          last.log[i].e = "load" /\ Len(last.log[i].key.path) >= Len(FullPath) + 2
    /\ FullPath \in folders
    /\ files # {}

\* The last call is the second call for a folder, made after a round trip of
\* the first failed.
Retried ==
    /\ calls = 2
    /\ last.op = "delete_folder_with_contents"
    /\ last.trace[1].err = Err("RoundTripFailed", <<>>)
    /\ FullPath \in last.before.folders

\* C17: a failed round trip applying nothing, the second call of
\* delete_folder_with_contents(p) after a first one that failed at some round
\* trip raises nothing when none of its round trips fails, and leaves neither p
\* nor a file or folder under p, and the rest of the site as it was.
C17_RetryCompletes ==
    Retried =>
        /\ last.err = NoErr
        /\ \A q \in folders : ~Under(q, FullPath)
        /\ \A f \in files : ~Under(f.dir, FullPath)
        /\ \A q \in last.before.folders : ~Under(q, FullPath) => q \in folders
        /\ \A f \in last.before.files : ~Under(f.dir, FullPath) => f \in files

\* The first call failed below its first level and left files and a folder
\* two levels down; the second call has removed them all.
C17_Witness ==
    /\ Retried
    /\ last.trace[1].args.failAt > TripsPerFolder
    /\ \E q \in last.before.folders : Under(q, FullPath) /\ Len(q) >= Len(FullPath) + 2
    /\ \E f \in last.before.files : Under(f.dir, FullPath)
    /\ last.err = NoErr
    /\ FullPath \notin folders

-----------------------------------------------------------------------------
(* One call that reads a local file: upload_file_sharepoint with a path    *)
(* source, or add_new_item with an attachment.                             *)

AttachmentUniverse ==
    {NoAttachment} \cup
    {Attachment(path, fs, IF fs = "file" THEN "y" ELSE "") :
        path \in LocalPaths, fs \in FsStates}

InitFiles ==
    Started(SiteLists, <<>>, {<<>>, <<"docs">>}, {File(<<"docs">>, 1)}, TRUE, {"Requests"}, {})

NextFiles ==
    \/ \E u \in SourceUniverse, n \in TargetNames :
            calls = 0 /\ SM_upload_file_sharepoint(<<"docs">>, u, n)
    \/ \E i \in InfoInputs, a \in AttachmentUniverse :
            calls = 0 /\ SM_add_new_item("Requests", i, a)

SpecFiles == InitFiles /\ [][NextFiles]_vars

\* The events of the last call's log that open a local file, and the number
\* of round trips made before event i.
OpenEvents == {i \in 1..Len(last.log) : last.log[i].e = "open"}
TripsBefore(i) == Cardinality({j \in 1..(i - 1) : last.log[j].e = "execute"})

ReadFailed == last.err \in OpenErrors

\* C15 as stated: in upload_file_sharepoint and add_new_item the file is read
\* before any round trip, and a read that fails leaves the site unchanged.
C15_ReadBeforeAnyTrip ==
    last.op \in {"upload_file_sharepoint", "add_new_item"} =>
        /\ \A i \in OpenEvents : TripsBefore(i) = 0
        /\ ReadFailed => SiteUntouched

\* The new item of the last add_new_item is on the list, with no attachment.
ItemWithoutAttachment ==
    LET old == last.before.lists[last.args.list_name]
        new == lists[last.args.list_name]
    IN /\ Len(new.items) = Len(old.items) + 1
       /\ SubSeq(new.items, 1, Len(old.items)) = old.items
       /\ \A c \in DOMAIN last.args.information :
             new.items[Len(new.items)][c] = last.args.information[c]
       /\ new.attachments = old.attachments
       /\ folders = last.before.folders
       /\ files = last.before.files

\* C15: upload_file_sharepoint with a path source reads the file before any
\* round trip, and a read that fails there leaves the site unchanged;
\* add_new_item with an attachment reads the file after the round trip that
\* adds the item and before the one that adds the attachment, and a read that
\* fails there leaves the new item on the list without attachment.
C15_ReadOrder ==
    /\ last.op = "upload_file_sharepoint" =>
          /\ \A i \in OpenEvents : TripsBefore(i) = 0
          /\ last.args.file_upload.kind = "str" =>
                /\ Cardinality(OpenEvents) = 1
                /\ ReadFailed <=> ~Readable(last.args.file_upload)
          /\ ReadFailed => SiteUntouched /\ last.rt = 0
    /\ last.op = "add_new_item" =>
          /\ \A i \in OpenEvents : TripsBefore(i) = 1
          /\ (~last.args.attachment.none /\ last.args.attachment.path # <<>>) =>
                /\ Cardinality(OpenEvents) = 1
                /\ ReadFailed <=> ~Readable(last.args.attachment)
          /\ ReadFailed => ItemWithoutAttachment /\ last.rt = 1

\* add_new_item with an attachment that cannot be read has raised and the
\* item is on the list.
C15_Witness ==
    /\ last.op = "add_new_item"
    /\ ~last.args.attachment.none
    /\ last.args.attachment.fs = "dir"
    /\ ReadFailed
    /\ Len(lists["Requests"].items) = Len(last.before.lists["Requests"].items) + 1

-----------------------------------------------------------------------------
(* The sources that upload_file_sharepoint takes.                           *)

\* The last call is an upload, on a connected manager and to a folder that
\* exists, of a readable path or of a buffer.
UploadOfSource ==
    /\ last.op = "upload_file_sharepoint"
    /\ ctx = "ok"
    /\ last.args.relative_path \in last.before.folders
    /\ \/ last.args.file_upload.kind = "str" /\ Readable(last.args.file_upload)
       \/ last.args.file_upload.kind = "BytesIO"

\* C16: for a path string and for a buffer alike, with or without a target
\* name, upload_file_sharepoint raises nothing and makes its one round trip,
\* which carries the whole content of the source.
C16_BothSourcesAccepted ==
    UploadOfSource =>
        /\ last.err = NoErr
        /\ last.rt = 1
        /\ \E f \in files : /\ f.dir = last.args.relative_path
                             /\ f.data = last.args.file_upload.data
                             /\ (last.args.file_name.none \/ f.name = last.args.file_name.v)

====
